---- MODULE Spec2Model ----
(***************************************************************************)
(* Offline cache controller of the shine storefront (the service worker   *)
(* with its install, activate and fetch listeners) as a state machine.    *)
(*                                                                         *)
(* URLs are modelled as the sequence of their "/"-separated pieces, so    *)
(* that url.startsWith('chrome-extension://') and url.includes('/static/')*)
(* are computed on the text of the URL as the code computes them.         *)
(* The cache storage of the origin is the sequence of its buckets in      *)
(* creation order (the order of caches.keys() and of caches.match()).     *)
(* Every asynchronous operation of the worker (caches.open, cache.addAll, *)
(* caches.keys, caches.delete, fetch, caches.match, cache.put) settles in *)
(* a step of its own, with the outcome chosen by the environment.         *)
(*                                                                         *)
(* What the host runtime does is taken from the service worker life       *)
(* cycle: install is dispatched once for a worker; activate is dispatched *)
(* after the promise of install is fulfilled; the worker is activated      *)
(* when the promise of activate settles, fulfilled or rejected; fetch      *)
(* events reach a worker only while it is the active one.  The worker of   *)
(* the previous deployment runs the same listeners under its own bucket    *)
(* name, and its fetch events may still be in flight when this worker      *)
(* activates.                                                              *)
(***************************************************************************)
EXTENDS Integers, Sequences, FiniteSets, TLC

\* ------------------------------------------------------------------ bounds
\* Number of buckets of earlier generations that may exist at the start.
NumOld == 2
\* Number of fetch events dispatched in one behaviour.
MaxFetch == 1
\* Number of install events when install is run again on the same storage.
MaxInstalls == 4
\* The wait given to debounce, in ticks.
Wait == 2
\* Number of calls of the debounced function in one behaviour.
MaxCalls == 3
\* The last tick of the clock.
MaxClock == 6
\* Number of calls of showNotification in one behaviour.
MaxToasts == 2
\* Number of clicks on a close button in one behaviour.
MaxClicks == 2
\* The delay of the automatic close, in milliseconds.
AutoCloseMs == 5000
\* The delay between the start of the closing animation and the removal.
RemoveMs == 300

\* ------------------------------------------------------- program constants
CACHE_NAME == "angaza-creatives-v1"

\* '/', '/static/css/style.css', '/static/js/main.js', '/static/images/logo.jpeg'
urlsToCache ==
  << <<"", "">>,
     <<"", "static", "css", "style.css">>,
     <<"", "static", "js", "main.js">>,
     <<"", "static", "images", "logo.jpeg">> >>

\* Names of buckets left behind by earlier generations of the worker.
OldNameList == <<"angaza-creatives-v0", "angaza-creatives-beta",
                 "angaza-creatives-alpha", "angaza-creatives-dev">>

OldNames == {OldNameList[i] : i \in 1..NumOld}

\* The generation whose worker controls the pages until this one activates.
PrevGen == OldNameList[1]

\* ------------------------------------------------------------------- URLs
\* The origin the worker is registered for: "https://shine.example".
Origin == <<"https:", "", "shine.example">>

\* A path such as '/' resolved against the origin of the worker, as the
\* cache API does for a string request.
Resolve(path) == Origin \o Tail(path)

RootUrl  == Resolve(<<"", "">>)
CssUrl   == Resolve(<<"", "static", "css", "style.css">>)
PageUrl  == Resolve(<<"", "products">>)
ApiUrl   == Resolve(<<"", "api", "rates">>)
ExtUrl   == <<"chrome-extension:", "", "abcdef", "static", "inject.js">>

\* event.request.url.startsWith('chrome-extension://')
StartsWithExtension(url) ==
  /\ Len(url) >= 3
  /\ url[1] = "chrome-extension:"
  /\ url[2] = ""

\* event.request.url.includes('/static/')
IncludesStatic(url) == \E i \in 2..(Len(url) - 1) : url[i] = "static"

\* The requests pages make.
Requests ==
  { [method |-> "GET",  url |-> RootUrl, mode |-> "navigate"],
    [method |-> "GET",  url |-> PageUrl, mode |-> "navigate"],
    [method |-> "GET",  url |-> CssUrl,  mode |-> "no-cors"],
    [method |-> "GET",  url |-> ApiUrl,  mode |-> "cors"],
    [method |-> "POST", url |-> ApiUrl,  mode |-> "cors"],
    [method |-> "POST", url |-> CssUrl,  mode |-> "cors"],
    [method |-> "GET",  url |-> ExtUrl,  mode |-> "no-cors"] }

\* -------------------------------------------------------------- responses
\* The value of a promise resolved with undefined: no response.
Undefined == [status |-> 0, body |-> "undefined"]

\* Responses the network can give to a page request.
NetResponses ==
  { [status |-> 200, body |-> "fresh"],
    [status |-> 404, body |-> "missing"] }

\* The response a seed URL gets during install.
SeedResponse == [status |-> 200, body |-> "seed"]

\* What a bucket of an earlier generation holds for a URL.
OldResponse == [status |-> 200, body |-> "old"]

\* The pieces of a URL.
Range(seq) == {seq[i] : i \in 1..Len(seq)}

\* ---------------------------------------------------------- cache storage
EmptyEntries == [u \in {} |-> Undefined]

OldEntries == [u \in {RootUrl, CssUrl} |-> OldResponse]

CacheNames(cs) == {cs[i].name : i \in 1..Len(cs)}

HasCache(cs, name) == name \in CacheNames(cs)

IndexOf(cs, name) == CHOOSE i \in 1..Len(cs) : cs[i].name = name

\* An open that creates a bucket every time.
OpenDuplicate(cs, name) == Append(cs, [name |-> name, entries |-> EmptyEntries])

\* caches.open(name): the bucket is created when it does not exist.
Open(cs, name) ==
  IF HasCache(cs, name) THEN cs
  ELSE Append(cs, [name |-> name, entries |-> EmptyEntries])

\* A put that leaves the new entry alone in the bucket.
PutEntryReplacing(entries, url, resp) == [u \in {url} |-> resp]

\* The entries of one bucket after cache.put(url, resp).
PutEntry(entries, url, resp) ==
  [u \in (DOMAIN entries) \cup {url} |-> IF u = url THEN resp ELSE entries[u]]

\* cache.put on the bucket called name.
Put(cs, name, url, resp) ==
  [i \in 1..Len(cs) |->
     IF cs[i].name = name
     THEN [cs[i] EXCEPT !.entries = PutEntry(cs[i].entries, url, resp)]
     ELSE cs[i]]

\* caches.delete(name)
Delete(cs, name) == SelectSeq(cs, LAMBDA b : b.name # name)

\* caches.match(url): the first bucket, in creation order, with an entry.
MatchAll(cs, url) ==
  LET hits == {i \in 1..Len(cs) : url \in DOMAIN cs[i].entries}
  IN  IF hits = {} THEN Undefined
      ELSE LET first == CHOOSE i \in hits : \A j \in hits : i <= j
           IN  cs[first].entries[url]

\* The entry of url in the bucket called name, Undefined if there is none.
EntryOf(cs, name, url) ==
  IF HasCache(cs, name) /\ url \in DOMAIN cs[IndexOf(cs, name)].entries
  THEN cs[IndexOf(cs, name)].entries[url]
  ELSE Undefined

VARIABLES
  caches,          \* the buckets of the origin, in creation order
  lifecycle,       \* uninstalled, installing, installed, activating, active
  installs,        \* install events dispatched so far
  installPc,       \* where the install chain is
  seeds,           \* per seed fetch of a running cache.addAll: pending, ok
  installPromise,  \* the promise given to event.waitUntil by install
  installLogged,   \* 'Cache install failed' was logged
  skipWaitingCalls,\* calls of self.skipWaiting()
  activatePc,      \* where the activate chain is: idle, keys, deleting
  activatePromise, \* the promise given to event.waitUntil by activate
  cacheNames,      \* the names caches.keys() gave to activate
  deletions,       \* per bucket name activate deletes: pending, ok, failed
  claimCalls,      \* calls of self.clients.claim()
  tasks,           \* one record per fetch event dispatched
  \* the page script: one function made by debounce(func, wait)
  clock,           \* the time, in ticks
  calls,           \* calls of the debounced function so far
  timeout,         \* the closure's timeout: a timer id, 0 for undefined
  pending,         \* the timers set by setTimeout(later, wait), not yet run
  lastCall,        \* time and arguments of the latest call
  bursts,          \* bursts of calls begun so far
  invoked,         \* the invocations of func: time and arguments
  \* the page script: notification toasts
  body,            \* the toasts attached to document.body, in document order
  created,         \* toasts created so far
  closing,         \* toasts whose animation is slideOutRight
  queue,           \* the timers of the toasts, in the order they are due
  clicks           \* clicks on a close button so far

workerVars == <<caches, lifecycle, installs, installPc, seeds, installPromise,
                installLogged, skipWaitingCalls, activatePc, activatePromise,
                cacheNames, deletions, claimCalls, tasks>>

debounceVars == <<clock, calls, timeout, pending, lastCall, bursts, invoked>>

toastVars == <<body, created, closing, queue, clicks>>

pageVars == <<debounceVars, toastVars>>

vars == <<workerVars, pageVars>>

installVars == <<installs, installPc, seeds, installPromise, installLogged,
                 skipWaitingCalls>>

activateVars == <<activatePc, activatePromise, cacheNames, deletions, claimCalls>>

\* Storage left by earlier generations: any subset of the old names, each
\* bucket empty or holding the old shell document and stylesheet.
InitCaches ==
  LET pick(S) == SelectSeq(OldNameList, LAMBDA n : n \in S)
  IN  UNION { { [i \in 1..Len(pick(S)) |->
                   [name |-> pick(S)[i],
                    entries |-> IF pick(S)[i] \in F THEN OldEntries
                                ELSE EmptyEntries]] : F \in SUBSET S }
              : S \in SUBSET OldNames }

\* No call made so far.
NoCall == [time |-> 0, args |-> "none"]

\* The page script evaluated: nothing called yet, no toast shown.
PageLoaded ==
  /\ clock = 0
  /\ calls = 0
  /\ timeout = 0
  /\ pending = {}
  /\ lastCall = NoCall
  /\ bursts = 0
  /\ invoked = <<>>
  /\ body = <<>>
  /\ created = 0
  /\ closing = {}
  /\ queue = <<>>
  /\ clicks = 0

Init ==
  /\ PageLoaded
  /\ caches \in InitCaches
  /\ lifecycle = "uninstalled"
  /\ installs = 0
  /\ installPc = "idle"
  /\ seeds = [i \in 1..Len(urlsToCache) |-> "idle"]
  /\ installPromise = "none"
  /\ installLogged = FALSE
  /\ skipWaitingCalls = 0
  /\ activatePc = "idle"
  /\ activatePromise = "none"
  /\ cacheNames = <<>>
  /\ deletions = [n \in {} |-> "pending"]
  /\ claimCalls = 0
  /\ tasks = <<>>

\* ---------------------------------------------------------------- install
\* The install chain without its .catch: a rejection reaches waitUntil.
InstallCatchMissing(outcome) == IF outcome = "error" THEN "rejected" ELSE "fulfilled"

\* The .catch of the install chain turns a rejection of caches.open or of
\* cache.addAll into a fulfilled promise; outcome is "ok" or "error".
InstallCatch(outcome) == "fulfilled"

\* The runtime moves on when the promise given to waitUntil settles.
AfterInstall(promise) == IF promise = "fulfilled" THEN "installed" ELSE "redundant"

\* An install handler that does not call self.skipWaiting().
InstallEventNoSkip ==
  /\ lifecycle = "uninstalled"
  /\ installs' = installs + 1
  /\ lifecycle' = "installing"
  /\ installPc' = "opening"
  /\ seeds' = [i \in 1..Len(urlsToCache) |-> "idle"]
  /\ installPromise' = "pending"
  /\ installLogged' = FALSE
  /\ UNCHANGED <<caches, skipWaitingCalls, activateVars, tasks, pageVars>>

\* The install event: the chain starts with caches.open(CACHE_NAME) and
\* self.skipWaiting() is called before the handler returns.
InstallEvent ==
  /\ lifecycle = "uninstalled"
  /\ installs' = installs + 1
  /\ lifecycle' = "installing"
  /\ installPc' = "opening"
  /\ seeds' = [i \in 1..Len(urlsToCache) |-> "idle"]
  /\ installPromise' = "pending"
  /\ installLogged' = FALSE
  /\ skipWaitingCalls' = skipWaitingCalls + 1
  /\ UNCHANGED <<caches, activateVars, tasks, pageVars>>

\* caches.open resolves: the bucket exists, cache.addAll starts one fetch
\* per seed URL.
InstallOpenOk ==
  /\ installPc = "opening"
  /\ caches' = Open(caches, CACHE_NAME)
  /\ installPc' = "adding"
  /\ seeds' = [i \in 1..Len(urlsToCache) |-> "pending"]
  /\ UNCHANGED <<lifecycle, installs, installPromise, installLogged,
                 skipWaitingCalls, activateVars, tasks, pageVars>>

\* caches.open rejects: the catch logs and install completes.
InstallOpenFail ==
  /\ installPc = "opening"
  /\ installPc' = "finished"
  /\ installLogged' = TRUE
  /\ installPromise' = InstallCatch("error")
  /\ lifecycle' = AfterInstall(installPromise')
  /\ UNCHANGED <<caches, installs, seeds, skipWaitingCalls, activateVars, tasks, pageVars>>

\* A seeding that stores each response as it arrives (cache.add per URL).
SeedOkStoring(i) ==
  /\ installPc = "adding"
  /\ seeds[i] = "pending"
  /\ seeds' = [seeds EXCEPT ![i] = "ok"]
  /\ caches' = Put(caches, CACHE_NAME, Resolve(urlsToCache[i]), SeedResponse)
  /\ installPc' = IF \A j \in DOMAIN seeds' : seeds'[j] = "ok"
                  THEN "committing" ELSE "adding"
  /\ UNCHANGED <<lifecycle, installs, installPromise, installLogged,
                 skipWaitingCalls, activateVars, tasks, pageVars>>

\* One seed fetch of cache.addAll gives an ok response.
SeedOk(i) ==
  /\ installPc = "adding"
  /\ seeds[i] = "pending"
  /\ seeds' = [seeds EXCEPT ![i] = "ok"]
  /\ installPc' = IF \A j \in DOMAIN seeds' : seeds'[j] = "ok"
                  THEN "committing" ELSE "adding"
  /\ UNCHANGED <<caches, lifecycle, installs, installPromise, installLogged,
                 skipWaitingCalls, activateVars, tasks, pageVars>>

\* One seed fetch fails (network error or a response that is not ok):
\* cache.addAll rejects without storing anything and ends the other seed
\* fetches; the catch logs and install completes.
SeedFail(i) ==
  /\ installPc = "adding"
  /\ seeds[i] = "pending"
  /\ seeds' = [j \in DOMAIN seeds |-> "idle"]
  /\ installPc' = "finished"
  /\ installLogged' = TRUE
  /\ installPromise' = InstallCatch("error")
  /\ lifecycle' = AfterInstall(installPromise')
  /\ UNCHANGED <<caches, installs, skipWaitingCalls, activateVars, tasks, pageVars>>

\* The bucket after cache.addAll stored every seed response.
RECURSIVE PutSeeds(_, _)
PutSeeds(cs, k) ==
  IF k = 0 THEN cs
  ELSE Put(PutSeeds(cs, k - 1), CACHE_NAME, Resolve(urlsToCache[k]), SeedResponse)

\* Every seed fetch succeeded: cache.addAll stores all the responses in one
\* batch (or the batch fails as a whole), and install completes.
AddAllCommit(ok) ==
  /\ installPc = "committing"
  /\ installPc' = "finished"
  /\ caches' = IF ok THEN PutSeeds(caches, Len(urlsToCache)) ELSE caches
  /\ seeds' = [j \in DOMAIN seeds |-> "idle"]
  /\ installLogged' = ~ok
  /\ installPromise' = InstallCatch(IF ok THEN "ok" ELSE "error")
  /\ lifecycle' = AfterInstall(installPromise')
  /\ UNCHANGED <<installs, skipWaitingCalls, activateVars, tasks, pageVars>>

Install ==
  \/ InstallEvent
  \/ InstallOpenOk
  \/ InstallOpenFail
  \/ \E i \in 1..Len(urlsToCache) : SeedOk(i) \/ SeedFail(i)
  \/ \E ok \in BOOLEAN : AddAllCommit(ok)

\* --------------------------------------------------------------- activate
\* Promise.all over the mapped names: the names that are not CACHE_NAME map
\* to the promise of caches.delete, CACHE_NAME maps to undefined.  It
\* rejects as soon as one deletion has failed and fulfils when none is
\* pending any more.
PromiseAll(dels) ==
  IF \E n \in DOMAIN dels : dels[n] = "failed" THEN "rejected"
  ELSE IF \E n \in DOMAIN dels : dels[n] = "pending" THEN "pending"
  ELSE "fulfilled"

\* A settled promise keeps its state.
Settle(promise, now) == IF promise = "pending" THEN now ELSE promise

\* The runtime activates the worker once the promise given to waitUntil has
\* settled, whichever way.
AfterActivate(promise) == IF promise = "pending" THEN "activating" ELSE "active"

\* A filter that deletes nothing but the first name.
ToDeleteFirstOnly(names) == {names[i] : i \in 1..Len(names)} \cap {PrevGen}

\* A cleanup without the comparison: every bucket is deleted.
ToDeleteAll(names) == {names[i] : i \in 1..Len(names)}

\* The names activate deletes: cacheName !== CACHE_NAME.
ToDelete(names) == {names[i] : i \in 1..Len(names)} \ {CACHE_NAME}

\* The activate event: caches.keys() is called and self.clients.claim() is
\* called before the handler returns.
ActivateEvent ==
  /\ lifecycle = "installed"
  /\ lifecycle' = "activating"
  /\ activatePc' = "keys"
  /\ activatePromise' = "pending"
  /\ claimCalls' = claimCalls + 1
  /\ UNCHANGED <<caches, installVars, cacheNames, deletions, tasks, pageVars>>

\* caches.keys() resolves with the names of the buckets: a deletion is
\* started for every name that is not CACHE_NAME.
KeysOk ==
  /\ activatePc = "keys"
  /\ activatePc' = "deleting"
  /\ cacheNames' = [i \in 1..Len(caches) |-> caches[i].name]
  /\ deletions' = [n \in ToDelete(cacheNames') |-> "pending"]
  /\ activatePromise' = PromiseAll(deletions')
  /\ lifecycle' = AfterActivate(activatePromise')
  /\ UNCHANGED <<caches, installVars, claimCalls, tasks, pageVars>>

\* caches.keys() rejects: nothing is deleted.
KeysFail ==
  /\ activatePc = "keys"
  /\ activatePc' = "failed"
  /\ activatePromise' = "rejected"
  /\ lifecycle' = AfterActivate(activatePromise')
  /\ UNCHANGED <<caches, installVars, cacheNames, deletions, claimCalls, tasks, pageVars>>

\* A fetch task that holds the bucket called name loses it when the bucket
\* is deleted: what it has put, or puts later, is in a bucket no lookup
\* can reach.
Orphan(ts, name) ==
  [t \in DOMAIN ts |->
     IF ts[t].gen = name /\ ts[t].store \in {"putting", "stored", "put_failed"}
     THEN [ts[t] EXCEPT !.store = IF @ = "putting" THEN "putting_orphan"
                                  ELSE IF @ = "stored" THEN "stored_orphan"
                                  ELSE "put_failed_orphan"]
     ELSE ts[t]]

\* caches.delete(name) resolves (the bucket, if it still exists, is gone).
DeleteOk(name) ==
  /\ activatePc = "deleting"
  /\ name \in DOMAIN deletions
  /\ deletions[name] = "pending"
  /\ caches' = Delete(caches, name)
  /\ tasks' = Orphan(tasks, name)
  /\ deletions' = [deletions EXCEPT ![name] = "ok"]
  /\ activatePromise' = Settle(activatePromise, PromiseAll(deletions'))
  /\ lifecycle' = AfterActivate(activatePromise')
  /\ UNCHANGED <<installVars, activatePc, cacheNames, claimCalls, pageVars>>

\* caches.delete(name) rejects: the bucket stays.
DeleteFail(name) ==
  /\ activatePc = "deleting"
  /\ name \in DOMAIN deletions
  /\ deletions[name] = "pending"
  /\ deletions' = [deletions EXCEPT ![name] = "failed"]
  /\ activatePromise' = Settle(activatePromise, PromiseAll(deletions'))
  /\ lifecycle' = AfterActivate(activatePromise')
  /\ UNCHANGED <<caches, installVars, activatePc, cacheNames, claimCalls, tasks, pageVars>>

Activate ==
  \/ ActivateEvent
  \/ KeysOk
  \/ KeysFail
  \/ \E name \in DOMAIN deletions : DeleteOk(name) \/ DeleteFail(name)

\* ------------------------------------------------------------------ fetch
\* The listener without its early returns.
InterceptAll(req) == TRUE

\* The two early returns of the fetch listener: only a GET request that
\* is not a browser-extension request is answered with respondWith.
Intercepted(req) ==
  /\ req.method = "GET"
  /\ ~StartsWithExtension(req.url)

\* The store without the test of the URL.
ShouldStoreAnyUrl(resp, url) == resp.status = 200

\* The store without the test of the status.
ShouldStoreAnyStatus(resp, url) == IncludesStatic(url)

\* response.status === 200 && event.request.url.includes('/static/')
ShouldStore(resp, url) ==
  /\ resp.status = 200
  /\ IncludesStatic(url)

\* A store that keeps the status line only.
CloneEmpty(resp) == [status |-> resp.status, body |-> ""]

\* response.clone()
Clone(resp) == resp

\* A cache-first handler: the stored entry wins over the network response.
RespondCacheFirst(resp, cs, url) ==
  IF MatchAll(cs, url) # Undefined THEN MatchAll(cs, url) ELSE resp

\* What the then-handler of fetch returns to respondWith.
Respond(resp, cs, url) == resp

\* A handler that falls back to the offline page for every request.
AfterMatchAlwaysOffline(hit, mode) ==
  IF hit # Undefined THEN "hit" ELSE "offline"

\* What the handler of caches.match(event.request) does with its outcome:
\* the response found, else caches.match('/') for a navigation, else
\* undefined.
AfterMatch(hit, mode) ==
  IF hit # Undefined THEN "hit"
  ELSE IF mode = "navigate" THEN "offline"
  ELSE "nothing"

\* A handler without the offline page.
OfflinePageMissing(cs) == Undefined

\* caches.match('/')
OfflinePage(cs) == MatchAll(cs, RootUrl)

\* A handler that looks in the cache before the network has answered.
NewTaskCacheFirst(req, gen) ==
  [req |-> req, gen |-> gen,
   pc |-> IF Intercepted(req) THEN "match1" ELSE "passthrough",
   failed |-> FALSE, net |-> Undefined, result |-> Undefined,
   lookups |-> 0, store |-> "none"]

\* The state of one fetch event: the early returns leave the request to
\* the browser, otherwise fetch(event.request) is started.
NewTask(req, gen) ==
  [req |-> req, gen |-> gen,
   pc |-> IF Intercepted(req) THEN "network" ELSE "passthrough",
   failed |-> FALSE, net |-> Undefined, result |-> Undefined,
   lookups |-> 0, store |-> "none"]

\* A fetch event reaches the worker of generation gen.  The worker of this
\* generation gets fetch events once it is active, the worker of the
\* previous generation until this one is activated.
FetchEvent(req, gen) ==
  /\ Len(tasks) < MaxFetch
  /\ \/ gen = CACHE_NAME /\ lifecycle = "active"
     \/ gen = PrevGen /\ lifecycle \in {"uninstalled", "installing", "installed"}
  /\ tasks' = Append(tasks, NewTask(req, gen))
  /\ UNCHANGED <<caches, lifecycle, installVars, activateVars, pageVars>>

\* A then-handler that returns the response only when the store has ended.
NetRespondAwaitStore(t, resp) ==
  /\ tasks[t].pc = "network"
  /\ tasks' = [tasks EXCEPT ![t] =
       [@ EXCEPT !.pc = IF ShouldStore(resp, tasks[t].req.url)
                        THEN "storing" ELSE "done",
                 !.net = resp,
                 !.result = IF ShouldStore(resp, tasks[t].req.url)
                            THEN Undefined
                            ELSE Respond(resp, caches, tasks[t].req.url),
                 !.store = IF ShouldStore(resp, tasks[t].req.url)
                           THEN "opening" ELSE "none"]]
  /\ UNCHANGED <<caches, lifecycle, installVars, activateVars, pageVars>>

\* fetch(event.request) resolves with a response: the response is cloned,
\* the store is started for a 200 response to a static URL, and the
\* response is returned.
NetRespond(t, resp) ==
  /\ tasks[t].pc = "network"
  /\ tasks' = [tasks EXCEPT ![t] =
       [@ EXCEPT !.pc = "done",
                 !.net = resp,
                 !.result = Respond(resp, caches, tasks[t].req.url),
                 !.store = IF ShouldStore(resp, tasks[t].req.url)
                           THEN "opening" ELSE "none"]]
  /\ UNCHANGED <<caches, lifecycle, installVars, activateVars, pageVars>>

\* fetch(event.request) rejects: caches.match(event.request) is called.
NetFail(t) ==
  /\ tasks[t].pc = "network"
  /\ tasks' = [tasks EXCEPT ![t] = [@ EXCEPT !.pc = "match1", !.failed = TRUE]]
  /\ UNCHANGED <<caches, lifecycle, installVars, activateVars, pageVars>>

\* caches.match(event.request) resolves.
Match1(t) ==
  /\ tasks[t].pc = "match1"
  /\ LET hit == MatchAll(caches, tasks[t].req.url)
         next == AfterMatch(hit, tasks[t].req.mode)
     IN  tasks' = [tasks EXCEPT ![t] =
           [@ EXCEPT !.lookups = 1,
                     !.pc = IF next = "offline" THEN "match2" ELSE "done",
                     !.result = IF next = "hit" THEN hit ELSE Undefined]]
  /\ UNCHANGED <<caches, lifecycle, installVars, activateVars, pageVars>>

\* caches.match('/') resolves.
Match2(t) ==
  /\ tasks[t].pc = "match2"
  /\ tasks' = [tasks EXCEPT ![t] =
       [@ EXCEPT !.lookups = 2,
                 !.pc = "done",
                 !.result = OfflinePage(caches)]]
  /\ UNCHANGED <<caches, lifecycle, installVars, activateVars, pageVars>>

\* caches.open(CACHE_NAME) of the store resolves: cache.put is called.
StoreOpenOk(t) ==
  /\ tasks[t].store = "opening"
  /\ caches' = Open(caches, tasks[t].gen)
  /\ tasks' = [tasks EXCEPT ![t] = [@ EXCEPT !.store = "putting"]]
  /\ UNCHANGED <<lifecycle, installVars, activateVars, pageVars>>

\* caches.open(CACHE_NAME) of the store rejects: nobody handles it.
StoreOpenFail(t) ==
  /\ tasks[t].store = "opening"
  /\ tasks' = [tasks EXCEPT ![t] = [@ EXCEPT !.store = "open_failed"]]
  /\ UNCHANGED <<caches, lifecycle, installVars, activateVars, pageVars>>

\* cache.put(event.request, responseClone) stores the clone.
StorePutOk(t) ==
  /\ tasks[t].store \in {"putting", "putting_orphan"}
  /\ caches' = IF tasks[t].store = "putting"
               THEN Put(caches, tasks[t].gen, tasks[t].req.url, Clone(tasks[t].net))
               ELSE caches
  /\ tasks' = [tasks EXCEPT ![t] =
       [@ EXCEPT !.store = IF tasks[t].store = "putting"
                           THEN "stored" ELSE "stored_orphan"]]
  /\ UNCHANGED <<lifecycle, installVars, activateVars, pageVars>>

\* cache.put rejects: nobody handles it.
StorePutFail(t) ==
  /\ tasks[t].store \in {"putting", "putting_orphan"}
  /\ tasks' = [tasks EXCEPT ![t] =
       [@ EXCEPT !.store = IF tasks[t].store = "putting"
                           THEN "put_failed" ELSE "put_failed_orphan"]]
  /\ UNCHANGED <<caches, lifecycle, installVars, activateVars, pageVars>>

Fetch ==
  \/ \E req \in Requests, gen \in {CACHE_NAME, PrevGen} : FetchEvent(req, gen)
  \/ \E t \in DOMAIN tasks, resp \in NetResponses : NetRespond(t, resp)
  \/ \E t \in DOMAIN tasks : NetFail(t)
  \/ \E t \in DOMAIN tasks : Match1(t)
  \/ \E t \in DOMAIN tasks : Match2(t)
  \/ \E t \in DOMAIN tasks : StoreOpenOk(t)
  \/ \E t \in DOMAIN tasks : StoreOpenFail(t)
  \/ \E t \in DOMAIN tasks : StorePutOk(t)
  \/ \E t \in DOMAIN tasks : StorePutFail(t)

Next == Install \/ Activate \/ Fetch

Spec == Init /\ [][Next]_vars

\* ------------------------------------------------- install run repeatedly
\* The install event dispatched again to the installed worker: the listener
\* runs as the first time, on the storage the earlier run left.
ReinstallEvent ==
  /\ lifecycle = "installed"
  /\ installs < MaxInstalls
  /\ installs' = installs + 1
  /\ lifecycle' = "installing"
  /\ installPc' = "opening"
  /\ seeds' = [i \in 1..Len(urlsToCache) |-> "idle"]
  /\ installPromise' = "pending"
  /\ installLogged' = FALSE
  /\ skipWaitingCalls' = skipWaitingCalls + 1
  /\ UNCHANGED <<caches, activateVars, tasks, pageVars>>

\* An origin whose storage is empty.
InitEmpty ==
  /\ PageLoaded
  /\ caches = <<>>
  /\ lifecycle = "uninstalled"
  /\ installs = 0
  /\ installPc = "idle"
  /\ seeds = [i \in 1..Len(urlsToCache) |-> "idle"]
  /\ installPromise = "none"
  /\ installLogged = FALSE
  /\ skipWaitingCalls = 0
  /\ activatePc = "idle"
  /\ activatePromise = "none"
  /\ cacheNames = <<>>
  /\ deletions = [n \in {} |-> "pending"]
  /\ claimCalls = 0
  /\ tasks = <<>>

NextInstall == Install \/ ReinstallEvent

SpecInstall == InitEmpty /\ [][NextInstall]_vars

\* ================================================================ claims
Tasks == {tasks[t] : t \in DOMAIN tasks}

\* The tasks of the worker of this generation.
OwnTasks == {task \in Tasks : task.gen = CACHE_NAME}

\* The entries stored for url, over all buckets.
StoredEntries(cs, url) ==
  {cs[i].entries[url] : i \in {j \in 1..Len(cs) : url \in DOMAIN cs[j].entries}}

\* C1: whatever the outcome of opening the bucket and of the seed fetches,
\* the promise install gives to waitUntil is never rejected, it is fulfilled
\* as soon as the install chain has ended (the worker is then installed),
\* and it is pending only while an operation of the chain is outstanding.
C1_InstallNeverRejects ==
  /\ installPromise # "rejected"
  /\ lifecycle # "redundant"
  /\ installPc = "finished" => installPromise = "fulfilled" /\ lifecycle # "installing"
  /\ installPromise = "pending" => installPc \in {"opening", "adding", "committing"}

\* C1 witness: an install that opened the bucket and then failed to seed
\* it has completed.
C1_Witness ==
  /\ installPc = "finished"
  /\ installLogged
  /\ HasCache(caches, CACHE_NAME)
  /\ installPromise = "fulfilled"
  /\ lifecycle = "installed"

\* C2 as stated: once activation is complete no bucket has a name other
\* than the current generation name.
C2_OnlyCurrentAfterActivation ==
  lifecycle = "active" => CacheNames(caches) \subseteq {CACHE_NAME}

\* The fetches of generation name whose store has opened the bucket and
\* still holds it (the bucket was not deleted since).
StoresOf(name) ==
  {task \in Tasks : /\ task.gen = name
                    /\ task.store \in {"putting", "stored", "put_failed"}}

\* C2 amended: once activation is complete with its promise fulfilled
\* (the enumeration and every deletion succeeded), a bucket with a name
\* other than the current generation name exists only if the store of a
\* fetch of that other generation has opened it.
C2_OnlyCurrentAfterFulfilledActivation ==
  (lifecycle = "active" /\ activatePromise = "fulfilled")
    => \A name \in CacheNames(caches) \ {CACHE_NAME} : StoresOf(name) # {}

\* C2 witness: three buckets were enumerated, two deletions succeeded and
\* exactly the current bucket is left.
C2_Witness ==
  /\ lifecycle = "active"
  /\ activatePromise = "fulfilled"
  /\ Len(cacheNames) = 3
  /\ \A name \in DOMAIN deletions : deletions[name] = "ok"
  /\ CacheNames(caches) = {CACHE_NAME}

\* C3 as stated: the promise activate gives to waitUntil is never rejected.
C3_ActivateNeverRejects == activatePromise # "rejected"

\* C4 as stated: the promise of activate settles only when none of the
\* deletions it started is still pending.
C4_SettlesAfterAllDeletions ==
  activatePromise \in {"fulfilled", "rejected"}
    => \A name \in DOMAIN deletions : deletions[name] # "pending"

\* C5: a task whose network request gave a response has that response as
\* its result, whatever its status and whatever the buckets hold, and has
\* made no cache lookup.
C5_NetworkResponseWins ==
  \A task \in Tasks :
    task.net # Undefined =>
      /\ task.pc = "done"
      /\ task.result = task.net
      /\ task.lookups = 0

\* C5 witness: the network response was returned while a bucket held a
\* different entry for the same request.
C5_Witness ==
  \E task \in Tasks :
    /\ task.net # Undefined
    /\ task.result = task.net
    /\ StoredEntries(caches, task.req.url) # {}
    /\ task.net \notin StoredEntries(caches, task.req.url)

\* The 200 responses to static URLs of the worker of this generation.
StaticHits ==
  {task \in OwnTasks : task.net.status = 200 /\ IncludesStatic(task.req.url)}

\* C6 as stated: once the store of a 200 response to a static URL is over,
\* the current bucket holds an entry for the request equal to the response
\* returned.
C6_StoredAfterStaticHit ==
  \A task \in StaticHits :
    task.store \in {"stored", "open_failed", "put_failed"}
      => EntryOf(caches, CACHE_NAME, task.req.url) = task.result

\* C6 amended: the result of a 200 response to a static URL is the network
\* response, and the step in which its cache.put succeeds leaves in the
\* current bucket an entry for the request equal to the response returned.
C6_StoredWhenPutSucceeds ==
  /\ [](\A task \in StaticHits : task.result = task.net /\ task.store # "none")
  /\ [][\A t \in DOMAIN tasks :
          (/\ tasks[t].gen = CACHE_NAME
           /\ tasks[t].store # "stored"
           /\ tasks'[t].store = "stored")
            => /\ tasks[t] \in StaticHits
               /\ EntryOf(caches', CACHE_NAME, tasks[t].req.url) = tasks[t].result]_vars

\* C6 witness: the store succeeded and the bucket holds the fresh response
\* in place of the seeded one.
C6_Witness ==
  \E task \in StaticHits :
    /\ task.store = "stored"
    /\ installPc = "finished" /\ ~installLogged
    /\ task.result # SeedResponse
    /\ EntryOf(caches, CACHE_NAME, task.req.url) = task.result

\* C7: a 200 response to a URL without '/static/' is the result of its task
\* and no store is started for it; no bucket holds a network response under
\* such a URL.
C7_DynamicNeverStored ==
  /\ \A task \in Tasks :
       (task.net.status = 200 /\ ~IncludesStatic(task.req.url))
         => task.result = task.net /\ task.store = "none"
  /\ \A task \in Tasks : task.store # "none" => IncludesStatic(task.req.url)
  /\ \A i \in 1..Len(caches) : \A u \in DOMAIN caches[i].entries :
       ~IncludesStatic(u) => caches[i].entries[u] \notin NetResponses

\* C7 witness: a 200 response to the products page was returned.
C7_Witness ==
  \E task \in Tasks :
    /\ task.req.url = PageUrl
    /\ task.net.status = 200
    /\ task.result = task.net
    /\ task.pc = "done"

\* C8: a response whose status is not 200 is the result of its task and no
\* store is started for it; no bucket holds a response whose status is not
\* 200.
C8_Non200NeverStored ==
  /\ \A task \in Tasks :
       (task.net # Undefined /\ task.net.status # 200)
         => task.result = task.net /\ task.store = "none"
  /\ \A i \in 1..Len(caches) : \A u \in DOMAIN caches[i].entries :
       caches[i].entries[u].status = 200

\* C8 witness: a 404 for the stylesheet was returned.
C8_Witness ==
  \E task \in Tasks :
    /\ task.req.url = CssUrl
    /\ task.net.status = 404
    /\ task.result = task.net
    /\ task.pc = "done"

\* C9: for a request that is not a GET, or whose URL is a browser-extension
\* URL, no network request is issued, no response is produced, no lookup is
\* made and no store is started.
C9_NotIntercepted ==
  \A task \in Tasks :
    (task.req.method # "GET" \/ task.req.url[1] = "chrome-extension:")
      => /\ task.pc = "passthrough"
         /\ task.net = Undefined
         /\ task.result = Undefined
         /\ task.lookups = 0
         /\ task.store = "none"

\* C9 witness: a POST to a static URL reached the active worker.
C9_Witness ==
  \E task \in OwnTasks :
    /\ task.req.method = "POST"
    /\ task.req.url = CssUrl
    /\ task.pc = "passthrough"

\* C10: a navigation GET whose network request failed and that matches no
\* entry looks up '/', and its result is a stored entry for '/' if there is
\* one and no response otherwise.
C10_OfflineNavigation ==
  /\ [](\A task \in Tasks : task.pc = "match2" =>
          task.req.mode = "navigate" /\ task.req.method = "GET")
  /\ [][\A t \in DOMAIN tasks :
          /\ (/\ tasks[t].pc = "match1"
              /\ tasks[t].req.mode = "navigate"
              /\ StoredEntries(caches, tasks[t].req.url) = {})
               => tasks'[t].pc \in {"match1", "match2"}
          /\ (tasks[t].pc = "match2" /\ tasks'[t].pc # "match2")
               => /\ tasks'[t].pc = "done"
                  /\ IF StoredEntries(caches, RootUrl) = {}
                     THEN tasks'[t].result = Undefined
                     ELSE tasks'[t].result \in StoredEntries(caches, RootUrl)]_vars

\* C10 witness: the products page was answered with the stored '/'.
C10_Witness ==
  \E task \in Tasks :
    /\ task.req.url = PageUrl
    /\ task.pc = "done"
    /\ task.lookups = 2
    /\ task.result \in StoredEntries(caches, RootUrl)

\* C11: a GET that is not a navigation and whose network request failed
\* makes one lookup, of the request itself: its result is a stored entry
\* for the request if there is one and no response otherwise; '/' is never
\* looked up for it.
C11_OfflineSubresource ==
  /\ [](\A task \in Tasks :
          (task.failed /\ task.req.mode # "navigate")
            => task.pc \in {"match1", "done"} /\ task.lookups <= 1)
  /\ [][\A t \in DOMAIN tasks :
          (/\ tasks[t].pc = "match1"
           /\ tasks[t].req.mode # "navigate"
           /\ tasks'[t].pc # "match1")
            => /\ tasks'[t].pc = "done"
               /\ IF StoredEntries(caches, tasks[t].req.url) = {}
                  THEN tasks'[t].result = Undefined
                  ELSE tasks'[t].result \in StoredEntries(caches, tasks[t].req.url)]_vars

\* C11 witness: the rates request got no response although '/' is stored.
C11_Witness ==
  \E task \in Tasks :
    /\ task.req.url = ApiUrl
    /\ task.failed
    /\ task.pc = "done"
    /\ task.lookups = 1
    /\ task.result = Undefined
    /\ StoredEntries(caches, RootUrl) # {}

\* The request a lookup step of task looks up.
LookupKey(task) == IF task.pc = "match1" THEN task.req.url ELSE RootUrl

\* C12 as stated: a response the worker of this generation serves from the
\* cache is the entry of the bucket named CACHE_NAME.
C12_ServedFromCurrentBucket ==
  [][\A t \in DOMAIN tasks :
       (/\ tasks[t].gen = CACHE_NAME
        /\ tasks[t].pc \in {"match1", "match2"}
        /\ tasks'[t].pc = "done"
        /\ tasks'[t].result # Undefined)
         => tasks'[t].result = EntryOf(caches, CACHE_NAME, LookupKey(tasks[t]))]_vars

\* The seed URLs the current bucket holds an entry for.
SeedsIn(cs) ==
  {i \in 1..Len(urlsToCache) :
     EntryOf(cs, CACHE_NAME, Resolve(urlsToCache[i])) # Undefined}

AllSeeds == 1..Len(urlsToCache)

Args == {"a", "b"}

\* A clearTimeout that cancels nothing.
ClearTimeoutNoop(timers, id) == timers

\* clearTimeout(id): the timer with that id, if it is still set, is
\* cancelled; an id that is undefined or has run cancels nothing.
ClearTimeout(timers, id) == {tm \in timers : tm.id # id}

\* setTimeout(later, wait) by a call with these arguments: later closes
\* over the arguments of that call.
SetTimeout(id, args) == [id |-> id, due |-> clock + Wait, args |-> args]

\* A timer whose delay has elapsed runs before anything else happens.
TimerDue == \E tm \in pending : tm.due <= clock

\* executedFunction(...args): the timer of the previous call is cleared and
\* a new one is set.  A call opens a burst when it is the first one or
\* comes wait or more after the previous call.
ExecutedFunction(args) ==
  /\ calls < MaxCalls
  /\ ~TimerDue
  /\ calls' = calls + 1
  /\ pending' = ClearTimeout(pending, timeout) \cup {SetTimeout(calls', args)}
  /\ timeout' = calls'
  /\ bursts' = IF calls = 0 \/ clock - lastCall.time >= Wait
                THEN bursts + 1 ELSE bursts
  /\ lastCall' = [time |-> clock, args |-> args]
  /\ UNCHANGED <<clock, invoked, toastVars, workerVars>>

\* later(): clearTimeout(timeout), then func(...args).
Later(tm) ==
  /\ tm \in pending
  /\ tm.due <= clock
  /\ pending' = ClearTimeout(pending \ {tm}, timeout)
  /\ invoked' = Append(invoked, [time |-> clock, args |-> tm.args])
  /\ UNCHANGED <<clock, calls, timeout, lastCall, bursts, toastVars, workerVars>>

\* Time passes while no timer is due.
Tick ==
  /\ clock < MaxClock
  /\ ~TimerDue
  /\ clock' = clock + 1
  /\ UNCHANGED <<calls, timeout, pending, lastCall, bursts, invoked,
                 toastVars, workerVars>>

NextDebounce ==
  \/ \E args \in Args : ExecutedFunction(args)
  \/ \E tm \in pending : Later(tm)
  \/ Tick

SpecDebounce == InitEmpty /\ [][NextDebounce]_vars

QuerySelector(b) == IF b = <<>> THEN 0 ELSE Head(b)

\* element.remove(): nothing happens when the element is not attached.
Remove(b, id) == SelectSeq(b, LAMBDA x : x # id)

\* A showNotification that leaves the existing toast where it is.
RemoveExistingNoop(b) == b

\* if (existing) existing.remove()
RemoveExisting(b) ==
  IF QuerySelector(b) # 0 THEN Remove(b, QuerySelector(b)) ELSE b

\* The places of the timer queue a new timer can take: after every timer
\* set earlier with the same or a shorter delay, which is due before it.
Places(q, delay) ==
  {p \in 1..(Len(q) + 1) : \A i \in 1..Len(q) : q[i].delay <= delay => i < p}

\* The timer queue with one more timer at place p.
InsertAt(q, p, tm) == SubSeq(q, 1, p - 1) \o <<tm>> \o SubSeq(q, p, Len(q))

\* setTimeout(() => closeNotification(notification), 5000)
CloseTimer(id) == [kind |-> "close", toast |-> id, delay |-> AutoCloseMs]

\* setTimeout(() => notification.remove(), 300)
RemoveTimer(id) == [kind |-> "remove", toast |-> id, delay |-> RemoveMs]

\* showNotification(message, type): the existing toast is removed, the new
\* one is appended to the body and its automatic close is scheduled.
ShowNotification ==
  /\ created < MaxToasts
  /\ created' = created + 1
  /\ body' = Append(RemoveExisting(body), created')
  /\ \E p \in Places(queue, AutoCloseMs) :
       queue' = InsertAt(queue, p, CloseTimer(created'))
  /\ UNCHANGED <<closing, clicks, debounceVars, workerVars>>

\* A click on the close button of a toast on the page:
\* closeNotification starts the animation and schedules the removal.
ClickClose(id) ==
  /\ clicks < MaxClicks
  /\ id \in Range(body)
  /\ clicks' = clicks + 1
  /\ closing' = closing \cup {id}
  /\ \E p \in Places(queue, RemoveMs) :
       queue' = InsertAt(queue, p, RemoveTimer(id))
  /\ UNCHANGED <<body, created, debounceVars, workerVars>>

\* The 5 s timer of a toast runs: closeNotification, whether or not the
\* toast is still on the page.
AutoClose ==
  /\ queue # <<>>
  /\ Head(queue).kind = "close"
  /\ closing' = closing \cup {Head(queue).toast}
  /\ \E p \in Places(Tail(queue), RemoveMs) :
       queue' = InsertAt(Tail(queue), p, RemoveTimer(Head(queue).toast))
  /\ UNCHANGED <<body, created, clicks, debounceVars, workerVars>>

\* The 300 ms timer of closeNotification runs: notification.remove().
RemoveToast ==
  /\ queue # <<>>
  /\ Head(queue).kind = "remove"
  /\ body' = Remove(body, Head(queue).toast)
  /\ queue' = Tail(queue)
  /\ UNCHANGED <<created, closing, clicks, debounceVars, workerVars>>

NextToast ==
  \/ ShowNotification
  \/ \E id \in 1..MaxToasts : ClickClose(id)
  \/ AutoClose
  \/ RemoveToast

\* The timers of the page run when they are due.
SpecToast ==
  /\ InitEmpty
  /\ [][NextToast]_vars
  /\ WF_vars(AutoClose)
  /\ WF_vars(RemoveToast)

\* C22: after any sequence of showNotification calls, clicks on a close
\* button and timer expiries, at most one toast is attached to the
\* document, and every toast that was shown is eventually removed and stays
\* removed.
C22_OneToastEventuallyRemoved ==
  /\ [](Len(body) <= 1)
  /\ \A id \in 1..MaxToasts :
       [](created >= id => <>[](id \notin Range(body)))

\* The second toast was shown while the first was closing: the first is
\* gone, its removal timer is still set, and the second is on the page.
C22_Witness ==
  /\ created = 2
  /\ body = <<2>>
  /\ 1 \in closing
  /\ \E i \in 1..Len(queue) : queue[i] = RemoveTimer(1)

\* The buckets of a storage that carry a name.
BucketsNamed(cs, name) == {i \in 1..Len(cs) : cs[i].name = name}

\* C14 (as stated): when install has run twice against an empty storage,
\* exactly one bucket named CACHE_NAME exists and it holds every seed asset
\* whose fetch succeeded in that run.
C14_TwiceLeavesReachableSeeds ==
  [][(installs = 2 /\ installPc # "finished" /\ installPc' = "finished")
       => /\ Cardinality(BucketsNamed(caches', CACHE_NAME)) = 1
          /\ \A i \in AllSeeds : seeds[i] = "ok" => i \in SeedsIn(caches')]_vars

\* C14 (amended): install run repeatedly against an empty storage never
\* leaves a bucket other than one named CACHE_NAME, never two of them, and
\* the bucket holds all the seed assets or none.  A run that ends without
\* logging a failure leaves exactly one bucket holding every seed asset; a
\* run that ends with a logged failure leaves the storage as it was before
\* its last step; seed assets stored by an earlier run stay stored.
C14_RepeatedInstallOneAtomicBucket ==
  /\ [](/\ Cardinality(BucketsNamed(caches, CACHE_NAME)) = Len(caches)
        /\ Len(caches) <= 1
        /\ SeedsIn(caches) \in {{}, AllSeeds})
  /\ [][(installPc # "finished" /\ installPc' = "finished")
          => IF installLogged'
             THEN caches' = caches
             ELSE /\ Len(caches') = 1
                  /\ SeedsIn(caches') = AllSeeds]_vars
  /\ [][SeedsIn(caches) = AllSeeds => SeedsIn(caches') = AllSeeds]_vars

\* The second run failed after the first had seeded the bucket: one bucket,
\* every seed asset still in it.
C14_Witness ==
  /\ installs = 2
  /\ installPc = "finished"
  /\ installLogged
  /\ Len(caches) = 1
  /\ SeedsIn(caches) = AllSeeds

\* C15: the store of the fetch path is not awaited and cannot affect the
\* response.  In every state in which a store has been started, whatever
\* its progress (opening, putting, stored, failed at the open or at the
\* put, bucket deleted under it), the response has already been returned and
\* is the network response; no step of a store changes the response.
C15_StoreNotAwaited ==
  /\ [](\A task \in Tasks :
          task.store # "none"
            => /\ task.pc = "done"
               /\ task.net \in NetResponses
               /\ task.result = task.net)
  /\ [][\A t \in DOMAIN tasks :
          tasks[t].store # "none"
            => /\ tasks'[t].pc = tasks[t].pc
               /\ tasks'[t].net = tasks[t].net
               /\ tasks'[t].result = tasks[t].result]_vars

\* The put of a store failed after the network response was returned.
C15_Witness ==
  \E task \in Tasks :
    /\ task.store = "put_failed"
    /\ task.pc = "done"
    /\ task.net.status = 200
    /\ task.result = task.net

\* C16: once the activation of the current generation has completed with
\* every enumerated old bucket deleted, no bucket of another generation
\* exists in any later state, whatever the fetches in flight of the
\* previous generation do.
C16_CleanupAloneResolves ==
  (/\ lifecycle = "active"
   /\ activatePromise = "fulfilled"
   /\ \A name \in DOMAIN deletions : deletions[name] = "ok")
    => \A i \in 1..Len(caches) : caches[i].name = CACHE_NAME

\* C17: the control signals are issued unconditionally.  self.skipWaiting()
\* has been called once per install event and self.clients.claim() once per
\* activate event, in every state from the dispatch of the event on: while
\* seeding or deletion is still pending, and after it succeeded or failed.
C17_SignalsUnconditional ==
  /\ skipWaitingCalls = installs
  /\ lifecycle # "uninstalled" => skipWaitingCalls = 1
  /\ claimCalls = IF activatePc = "idle" THEN 0 ELSE 1
  /\ lifecycle \in {"activating", "active"} => claimCalls = 1

\* Both signals were issued although seeding failed and the activation
\* promise rejected.
C17_Witness ==
  /\ installLogged
  /\ activatePromise = "rejected"
  /\ skipWaitingCalls = 1
  /\ claimCalls = 1

\* C18: while the network attempt of an intercepted request has not
\* settled, neither branch has run: no cache lookup was made, no store was
\* started, no response was produced.  A cache lookup is made or pending
\* only when the network attempt has failed, and then no network response
\* and no store exist for the request.
C18_NoBranchBeforeNetworkSettles ==
  \A task \in Tasks :
    /\ task.pc = "network"
         => /\ ~task.failed
            /\ task.lookups = 0
            /\ task.store = "none"
            /\ task.net = Undefined
            /\ task.result = Undefined
    /\ (task.lookups >= 1 \/ task.pc \in {"match1", "match2"}) => task.failed
    /\ task.failed => task.net = Undefined /\ task.store = "none"

\* The network attempt of a request of the active worker is pending while
\* the cache holds a response for its URL: nothing is looked up or returned.
C18_Witness ==
  \E task \in Tasks :
    /\ task.gen = CACHE_NAME
    /\ task.pc = "network"
    /\ StoredEntries(caches, task.req.url) # {}
    /\ task.lookups = 0
    /\ task.result = Undefined

\* The entries of the bucket of the current generation (no element when
\* the bucket does not exist).
CurrentBucket(cs) == {cs[i].entries : i \in BucketsNamed(cs, CACHE_NAME)}

\* C19: activation leaves the bucket of the current generation unchanged.
\* No deletion is ever started for CACHE_NAME, and no step of the activate
\* phase (the event, the settling of caches.keys(), the settling of a
\* caches.delete) changes whether that bucket exists or what it holds.
C19_ActivationKeepsCurrentBucket ==
  /\ [](CACHE_NAME \notin DOMAIN deletions)
  /\ [][activateVars' # activateVars
          => CurrentBucket(caches') = CurrentBucket(caches)]_vars

\* Activation deleted an old bucket and the seeded current bucket is whole.
C19_Witness ==
  /\ lifecycle = "active"
  /\ activatePromise = "fulfilled"
  /\ \E name \in DOMAIN deletions : deletions[name] = "ok"
  /\ SeedsIn(caches) = AllSeeds

\* C20: the fetch path only ever adds to the cache.  A request whose
\* network attempt failed never starts a store.  A step of the fetch path
\* removes no bucket and no entry; when it changes the storage, it is the
\* step of a request whose network attempt succeeded, and it either creates
\* the empty bucket named by the generation of that request or writes, as
\* the one put of that request, the entry of the request's URL in the bucket
\* of that name, every other entry staying as it was; a request that has
\* put its entry puts nothing more.
C20_FetchOnlyAdds ==
  /\ [](\A task \in Tasks : task.failed => task.store = "none")
  /\ [][(/\ tasks' # tasks
          /\ activateVars' = activateVars
          /\ installVars' = installVars)
          => /\ Len(caches') >= Len(caches)
             /\ \A i \in 1..Len(caches) :
                  /\ caches'[i].name = caches[i].name
                  /\ DOMAIN caches[i].entries \subseteq DOMAIN caches'[i].entries
             /\ caches' # caches
                  => \E t \in DOMAIN tasks :
                       /\ ~tasks[t].failed
                       /\ \A i \in 1..Len(caches') :
                            IF i > Len(caches)
                            THEN /\ Len(caches') = Len(caches) + 1
                                 /\ tasks[t].store = "opening"
                                 /\ caches'[i] = [name |-> tasks[t].gen,
                                                  entries |-> EmptyEntries]
                            ELSE caches'[i] # caches[i]
                                   => /\ tasks[t].store = "putting"
                                      /\ tasks'[t].store = "stored"
                                      /\ caches'[i].name = tasks[t].gen
                                      /\ \A u \in DOMAIN caches'[i].entries
                                                 \ {tasks[t].req.url} :
                                           /\ u \in DOMAIN caches[i].entries
                                           /\ caches'[i].entries[u] = caches[i].entries[u]
             /\ \A t \in DOMAIN tasks :
                  tasks[t].store \in {"stored", "stored_orphan"}
                    => tasks'[t].store = tasks[t].store]_vars

\* A request of the active worker stored the fresh stylesheet in the seeded
\* bucket: the other seed assets are still there.
C20_Witness ==
  /\ \E task \in Tasks :
       /\ task.gen = CACHE_NAME
       /\ task.req.url = CssUrl
       /\ task.store = "stored"
       /\ EntryOf(caches, CACHE_NAME, CssUrl) = task.net
       /\ task.net # SeedResponse
  /\ SeedsIn(caches) = AllSeeds
  /\ EntryOf(caches, CACHE_NAME, RootUrl) = SeedResponse

====
